---- MODULE Spec2Model ----
(***************************************************************************)
(* Birthday reminder bot: the reminder store (SQLite tables birthdays,     *)
(* groups, reminders), the repositories over it, and the cron scheduler    *)
(* that dispatches, materializes and sweeps reminder records.              *)
(*                                                                         *)
(* Text values are modelled by what the comparisons of the code see:       *)
(* a date string 'YYYY-MM-DD' is the sequence of its eight digits (the     *)
(* separators are the same in every string and are left out), 'MM-DD' the  *)
(* sequence of its four digits; SQL NULL is the empty sequence.            *)
(***************************************************************************)
EXTENDS Integers, Sequences, FiniteSets, TLC

(***************************************************************************)
(* Bounds of the model.                                                    *)
(***************************************************************************)
\* midnights the clock may pass while the dispatcher and the materializer are checked
MaxDays == 1
\* midnights the clock may pass in the retention specification
MaxSweepDays == 9
\* reminder rows in the table at a time
MaxReminders == 3
\* birthday rows ever inserted
MaxBirthdays == 4
\* midnights the clock may pass while mark-sent is checked
MaxMarkDays == 2
\* live node-cron tasks of the test job at a time
MaxTestTasks == 2

(***************************************************************************)
(* Calendar arithmetic of moment(): dates are <<year, month, day>>.        *)
(***************************************************************************)
IsLeapYear(y) == (y % 4 = 0 /\ y % 100 # 0) \/ y % 400 = 0

DaysInMonth(y, m) ==
    IF m = 2 THEN (IF IsLeapYear(y) THEN 29 ELSE 28)
    ELSE IF m \in {4, 6, 9, 11} THEN 30 ELSE 31

NextDate(dt) ==
    IF dt[3] < DaysInMonth(dt[1], dt[2]) THEN <<dt[1], dt[2], dt[3] + 1>>
    ELSE IF dt[2] < 12 THEN <<dt[1], dt[2] + 1, 1>>
    ELSE <<dt[1] + 1, 1, 1>>

PrevDate(dt) ==
    IF dt[3] > 1 THEN <<dt[1], dt[2], dt[3] - 1>>
    ELSE IF dt[2] > 1 THEN <<dt[1], dt[2] - 1, DaysInMonth(dt[1], dt[2] - 1)>>
    ELSE <<dt[1] - 1, 12, 31>>

RECURSIVE AddDays(_, _)
\* moment().add(n, 'day') and moment().subtract(-n, 'days')
AddDays(dt, n) ==
    IF n = 0 THEN dt
    ELSE IF n > 0 THEN AddDays(NextDate(dt), n - 1)
    ELSE AddDays(PrevDate(dt), n + 1)

Digits2(n) == <<n \div 10, n % 10>>
Digits4(n) == <<n \div 1000, (n \div 100) % 10, (n \div 10) % 10, n % 10>>

\* moment().format('YYYY-MM-DD')
FormatYMD(dt) == Digits4(dt[1]) \o Digits2(dt[2]) \o Digits2(dt[3])
\* moment().format('MM-DD')
FormatMD(dt) == Digits2(dt[2]) \o Digits2(dt[3])
\* a strftime with the format '%d-%m': the day before the month
StrftimeDM(s) == SubSeq(s, 7, 8) \o SubSeq(s, 5, 6)

\* SQLite strftime('%m-%d', <'YYYY-MM-DD' text>)
StrftimeMD(s) == SubSeq(s, 5, 8)

RECURSIVE StrLess(_, _)
\* SQLite's comparison of two text values (memcmp, the shorter prefix first)
StrLess(a, b) ==
    IF b = <<>> THEN FALSE
    ELSE IF a = <<>> THEN TRUE
    ELSE IF Head(a) # Head(b) THEN Head(a) < Head(b)
    ELSE StrLess(Tail(a), Tail(b))

(***************************************************************************)
(* The deployment the model runs: the rows init.sql inserts, one more      *)
(* member of the sample group, and the day the process is started.         *)
(***************************************************************************)
SampleGroup == "sample_group_123"
John == "1234567890"
Jane == "0987654321"
Ada == "2348030000000"
Phones == {John, Jane, Ada}
\* the members who send /addbirthday
Senders == {Jane, Ada}

\* users.name of each member (pushname of the contact)
UserName(p) == IF p = John THEN "John Doe" ELSE IF p = Jane THEN "Jane Smith" ELSE "Ada Obi"

\* position of a text value in SQLite's BINARY collation, for the values in use
Collate(s) ==
    CASE s = "Ada Obi" -> 1
      [] s = "Family Group" -> 2
      [] s = "Jane Smith" -> 3
      [] s = "John Doe" -> 4

StartDate == <<2024, 3, 14>>

\* the days on which the commands that compute dates are received
RefDates ==
    {<<2024, 3, 14>>, <<2024, 3, 15>>, <<2024, 3, 16>>, <<2024, 12, 31>>, <<2025, 2, 28>>,
     <<2025, 3, 1>>, <<2025, 3, 15>>, <<2027, 3, 1>>, <<2028, 2, 29>>}

\* the arguments of the /addbirthday commands whose replies are checked: good
\* ones, a day or a month out of range, a day the month does not have, a text
\* with one field and a text with a year after the month
CommandInputs ==
    {<<15, 3>>, <<29, 2>>, <<30, 2>>, <<32, 3>>, <<15, 13>>, <<0, 3>>, <<15>>, <<15, 3, 1990>>}

\* the days on which these commands are received
CommandDates == {StartDate, <<2025, 2, 28>>}

\* the names the module crypto of Node.js exports, as far as the code asks for them
CryptoExports == {"randomUUID"}

\* the arguments of the /upcoming commands checked, as parseInt reads them
UpcomingArgs == {0, 1, 7, 30, 365, 366}

\* Message texts are sequences of tokens: a leading "/" is a token of its
\* own, and so is every word.
Hello == <<"hello">>
HappyBirthday == <<"Happy", "Birthday", "Ada">>
HelpCommand == <<"/", "help">>
StatsTypo == <<"/", "stat">>

\* the texts of the group messages members send
MessageBodies == {Hello, HappyBirthday, HelpCommand, StatsTypo}

\* the WhatsApp account the bot runs on
BotAccount == "2349000000000"

\* the texts the bot sends, by the kind of the reply (each begins with an emoji)
ReplyText(kind) ==
    CASE kind = "hint"    -> <<"[robot]", "*", "Birthday", "Reminder", "Bot", "*">>
      [] kind = "help"    -> <<"[robot]", "*", "Birthday", "Reminder", "Bot", "-", "Help", "*">>
      [] kind = "unknown" -> <<"[question]", "*", "Unknown", "Command", "*">>
      [] kind = "added"   -> <<"[check]", "*", "Birthday", "Added", "*">>
      [] kind = "invalid" -> <<"[cross]", "*", "Invalid", "Date", "Format", "*">>

\* the kinds of reply that are a message sent to the group
SentKinds == {"hint", "help", "unknown", "added", "invalid"}

\* the methods of the object services/whatsappClient.js exports
WhatsAppClientMethods ==
    {"init", "setupEventHandlers", "handleMessage", "handleGroupJoin", "handleGroupLeave",
     "sendMessage", "sendMessageWithMentions", "getChat", "addMessageHandler",
     "removeMessageHandler", "isClientReady", "getClientInfo", "destroy"}

\* the signals the process has listeners for
Signals == {"SIGINT", "SIGTERM"}

\* the DD/MM arguments members send with /addbirthday
AddInputs == {<<15, 3>>, <<16, 3>>}

(***************************************************************************)
(* The methods the ReminderRepository object has.  A call of any other     *)
(* name on it is a call of undefined and throws a TypeError.               *)
(***************************************************************************)
ReminderRepositoryMethods ==
    {"createReminder", "markReminderSent", "getPendingReminders", "getReminderById",
     "getRemindersByBirthday", "getReminderHistory", "reminderExists",
     "deleteOldReminders", "getReminderStats", "createTodaysReminders"}

Runs == {"cron", "manual", "test"}
Callers == {"a", "b"}
JobNames == {"birthdayCheck", "cleanup", "reminderCreation"}
\* the keys CronScheduler.jobs can hold
TaskNames == JobNames \cup {"test"}
RetentionDays == 7

\* minutes after local midnight of the cron instants 00:00, 02:00, 23:59
ClockMinutes(c) == CASE c = 0 -> 0 [] c = 1 -> 120 [] c = 2 -> 1439

\* timezones the process may run in, in hours from the scheduler timezone
ProcessOffsets == {-1, 0, 1}

\* the calendar date, in the zone off hours from the scheduler timezone, at the
\* cron instant c of the scheduler-timezone date dt
LocalDate(dt, c, off) ==
    LET minutes == ClockMinutes(c) + 60 * off
    IN  IF minutes < 0 THEN PrevDate(dt)
        ELSE IF minutes >= 1440 THEN NextDate(dt)
        ELSE dt

\* the value of the variable thrown after a step that raised no error
NoError == <<>>

\* the process after the modules are loaded and the bot is constructed: the
\* signal listeners are registered, no connection is open, initialize() has
\* not begun; reachable and canConnect record whether the database file could
\* be opened and whether WhatsApp lets the client connect in this start
NewProcess ==
    [pc |-> "constructed", database |-> "closed", client |-> "none", exitCode |-> -1,
     signal |-> "none", reachable |-> TRUE, canConnect |-> TRUE]

\* the value of the variable reply before any message is handled: the kind of
\* the outcome, the member it answers, the date and the number of days it names
NoReply == <<"none", "", <<>>, 0>>

VARIABLES
    today,        \* calendar date in the scheduler timezone (Africa/Lagos)
    tz,           \* the process's timezone, in hours from the scheduler timezone
    storeUp,      \* whether the SQLite store answers
    tasks,        \* live node-cron tasks per job name
    adds,         \* the invocations of addOrUpdateBirthday
    thrown,       \* history: the error that reached the catch of a job body in the last step
    matDate,      \* history: the date the last createTomorrowReminders computed
    clock,        \* last cron instant passed: 0 = 00:00, 1 = 02:00, 2 = 23:59
    isRunning,    \* CronScheduler.isRunning
    jobs,         \* keys of CronScheduler.jobs
    groups,       \* rows of table groups
    birthdays,    \* rows of table birthdays
    reminders,    \* rows of table reminders
    nextBid,      \* next birthday id
    run,          \* the invocations of checkTodaysBirthdays
    ctr,          \* the invocations of createTodaysReminders
    delivered,    \* history: ids the sink has accepted a notification for
    owed,         \* history: ids whose last delivery attempt failed
    sentIn,       \* history: ids the run in flight sent successfully
    failedIn,     \* history: ids whose send failed in the run in flight
    markedIn,     \* history: ids the run in flight marked sent
    matStreak,    \* history: consecutive completed runs of createTomorrowReminders
    matCreated,   \* history: records the last such run created
    deletedCount, \* result of the last deleteOldReminders
    group_members,\* rows of table group_members
    proc,         \* the process: where initialize() is, the connections, the exit
    reply         \* history: the outcome of the last message or command handled

vars == <<today, clock, isRunning, jobs, groups, birthdays, reminders, nextBid,
          run, ctr, delivered, owed, sentIn, failedIn, markedIn, matStreak,
          matCreated, deletedCount, tz, proc, storeUp, tasks, adds, thrown,
          matDate, group_members, reply, proc>>

schedVars == <<isRunning, jobs, tasks>>
\* the environment of the process and the requests in flight besides the jobs
\* the membership table and the outcome of the last command
cmdVars == <<group_members, reply>>
envVars == <<tz, proc, storeUp, adds, cmdVars>>
storeVars == <<groups, birthdays, reminders, nextBid>>
runHist == <<delivered, owed, sentIn, failedIn, markedIn>>

IdleRun == [pc |-> "idle", list |-> <<>>, idx |-> 1]
\* a run that has returned
DoneRun == [pc |-> "done", list |-> <<>>, idx |-> 1]
IdleCall == [pc |-> "idle", date |-> <<>>, todo |-> {}, created |-> 0]
IdleAdd == [pc |-> "idle", phone |-> "", date |-> <<>>, existing |-> FALSE]

\* the rows init.sql inserts into birthdays
SampleBirthdays ==
    {[id |-> 1, phone_number |-> John, birth_date |-> FormatYMD(<<1990, 3, 15>>),
      group_id |-> SampleGroup],
     [id |-> 2, phone_number |-> Jane, birth_date |-> FormatYMD(<<1985, 7, 22>>),
      group_id |-> SampleGroup]}

\* the state after construction on the day date, after the cron instant
\* instant, over a store with the birthday rows rows; the process's timezone aside
InitAt(date, instant, rows, bid) ==
    /\ today = date
    /\ clock = instant
    /\ isRunning = FALSE
    /\ jobs = {}
    /\ groups = {[group_id |-> SampleGroup, group_name |-> "Family Group", bot_active |-> TRUE]}
    /\ birthdays = rows
    /\ reminders = {}
    /\ nextBid = bid
    /\ run = [r \in Runs |-> IdleRun]
    /\ ctr = [c \in Callers |-> IdleCall]
    /\ delivered = {}
    /\ owed = {}
    /\ sentIn = [r \in Runs |-> {}]
    /\ failedIn = [r \in Runs |-> {}]
    /\ markedIn = [r \in Runs |-> {}]
    /\ matStreak = 0
    /\ matCreated = 0
    /\ deletedCount = 0
    /\ storeUp = TRUE
    /\ tasks = [n \in TaskNames |-> 0]
    /\ adds = [c \in Callers |-> IdleAdd]
    /\ thrown = NoError
    /\ matDate = <<>>
    /\ group_members = {}
    /\ reply = NoReply
    /\ proc = NewProcess

\* the state after construction on the start date over the store of init.sql
InitProcess == InitAt(StartDate, 1, SampleBirthdays, 3)

\* the process runs in the scheduler timezone
Init == InitProcess /\ tz = 0

\* the process runs in any of the timezones ProcessOffsets
ZoneInit == InitProcess /\ tz \in ProcessOffsets

\* moment(): the calendar date of the process's local clock
moment == LocalDate(today, clock, tz)

\* SQLite CURRENT_TIMESTAMP: its date, to the day of the model's clock
CurrentTimestamp == today


(***************************************************************************)
(* ReminderRepository and BirthdayRepository: the SQL statements.          *)
(***************************************************************************)
HasMethod(m) == m \in ReminderRepositoryMethods

\* groups g with g.bot_active = true that a birthday row joins to
ActiveGroupOf(b) == {g \in groups : g.group_id = b.group_id /\ g.bot_active}

\* SELECT ... FROM reminders r INNER JOIN birthdays b ... LEFT JOIN users u
\* LEFT JOIN groups g WHERE r.reminder_date = ? AND r.sent = false AND g.bot_active = true
PendingRows(date) ==
    {[id |-> rec.id, group_id |-> b.group_id, name |-> UserName(b.phone_number),
      group_name |-> g.group_name] :
        <<rec, b, g>> \in {t \in reminders \X birthdays \X groups :
            /\ t[1].birthday_id = t[2].id
            /\ t[3].group_id = t[2].group_id
            /\ t[1].reminder_date = date
            /\ t[1].sent = FALSE
            /\ t[3].bot_active}}

\* ORDER BY g.group_name, u.name
OrderedBefore(x, y) ==
    \/ Collate(x.group_name) < Collate(y.group_name)
    \/ /\ Collate(x.group_name) = Collate(y.group_name)
       /\ Collate(x.name) <= Collate(y.name)

\* the row orders the ORDER BY allows (rows with equal keys come in any order)
getPendingReminders(date) ==
    LET rows == PendingRows(date)
        n == Cardinality(rows)
    IN  {s \in [1..n -> rows] :
            /\ \A i, j \in 1..n : i # j => s[i] # s[j]
            /\ \A i, j \in 1..n : i < j => OrderedBefore(s[i], s[j])}

\* an UPDATE that sets the flag and leaves sent_at as it is
markReminderSentFlagOnly(rows, id, now) ==
    {IF rec.id = id THEN [rec EXCEPT !.sent = TRUE] ELSE rec : rec \in rows}

\* UPDATE reminders SET sent = true, sent_at = CURRENT_TIMESTAMP WHERE id = ?
markReminderSent(rows, id, now) ==
    {IF rec.id = id THEN [rec EXCEPT !.sent = TRUE, !.sent_at = FormatYMD(now)] ELSE rec :
        rec \in rows}

\* a DELETE whose comparison is <= : it takes the rows of the cutoff date too
DeleteOldMatchesInclusive(rec, cutoffDate) ==
    ~StrLess(cutoffDate, rec.reminder_date) /\ rec.sent = TRUE

\* the comparison of DELETE FROM reminders WHERE reminder_date < ? AND sent = true
DeleteOldMatches(rec, cutoffDate) == StrLess(rec.reminder_date, cutoffDate) /\ rec.sent = TRUE

\* a DELETE without the condition on sent: it takes pending rows too
deleteOldRemindersAnyState(rows, now, daysOld) ==
    LET cutoffDate == FormatYMD(AddDays(now, -daysOld))
    IN  {rec \in rows : ~StrLess(rec.reminder_date, cutoffDate)}

\* deleteOldReminders(daysOld): the rows left by the DELETE
deleteOldReminders(rows, now, daysOld) ==
    LET cutoffDate == FormatYMD(AddDays(now, -daysOld))
    IN  {rec \in rows : ~DeleteOldMatches(rec, cutoffDate)}

\* createTodaysReminders: the SELECT of the birthdays of today without a reminder
BirthdaysWithoutReminder(todayMD, todayYMD) ==
    {b.id : b \in {x \in birthdays :
        /\ ActiveGroupOf(x) # {}
        /\ StrftimeMD(x.birth_date) = todayMD
        /\ ~\E rec \in reminders : rec.birthday_id = x.id /\ rec.reminder_date = todayYMD}}

\* a validateDate that checks the two fields are there and not their ranges
validateDateFormatOnly(input, now) ==
    IF Len(input) = 2
    THEN [isValid |-> TRUE,
          date |-> <<now[1], IF input[2] \in 1..12 THEN input[2] ELSE 12,
                     IF input[1] \in 1..28 THEN input[1] ELSE 28>>]
    ELSE [isValid |-> FALSE, date |-> <<>>]

\* validateDate: strict parse of DD/MM in the current year, year set to the
\* current year.  The argument is the sequence of the numbers its fields
\* spell: two of them for a text of the form DD/MM, fewer or more for a text
\* that the strict parse does not consume as a day and a month.
validateDate(input, now) ==
    LET d == input[1]
        m == input[2]
    IN  IF Len(input) = 2 /\ m \in 1..12 /\ d >= 1 /\ d <= DaysInMonth(now[1], m)
        THEN [isValid |-> TRUE, date |-> <<now[1], m, d>>]
        ELSE [isValid |-> FALSE, date |-> <<>>]

(***************************************************************************)
(* Helpers of the actions.                                                 *)
(***************************************************************************)
\* days in the years from 2024 up to, not including, y
RECURSIVE DaysBeforeYear(_)
DaysBeforeYear(y) ==
    IF y <= 2024 THEN 0
    ELSE DaysBeforeYear(y - 1) + (IF IsLeapYear(y - 1) THEN 366 ELSE 365)

RECURSIVE DaysBeforeMonth(_, _)
DaysBeforeMonth(y, m) ==
    IF m = 1 THEN 0 ELSE DaysBeforeMonth(y, m - 1) + DaysInMonth(y, m - 1)

\* the number of the day dt, counted from 2024-01-01 = 0
DayNumber(dt) == DaysBeforeYear(dt[1]) + DaysBeforeMonth(dt[1], dt[2]) + dt[3] - 1

\* the date a 'YYYY-MM-DD' text names
ParseYMD(s) ==
    <<1000 * s[1] + 100 * s[2] + 10 * s[3] + s[4], 10 * s[5] + s[6], 10 * s[7] + s[8]>>

\* no job body and no repository call is in flight
Quiet ==
    /\ \A r \in Runs : run[r].pc \in {"idle", "done"}
    /\ \A c \in Callers : ctr[c].pc = "idle"

Min(a, b) == IF a < b THEN a ELSE b

\* minutes after local midnight of the process's clock
MinuteOfDay == (ClockMinutes(clock) + 60 * tz) % 1440

\* moment(dt).year(y): the year is set and the month and day are kept; Feb 29
\* set to a year that has none becomes the last day of that February
SetYear(dt, y) == <<y, dt[2], Min(dt[3], DaysInMonth(y, dt[2]))>>

\* m.add(1, 'year'): the same month of the next year, the day no later than
\* the last of that month
AddYear(dt) == <<dt[1] + 1, dt[2], Min(dt[3], DaysInMonth(dt[1] + 1, dt[2]))>>

\* getNextBirthdayDate(birthDate), called on the local date now
getNextBirthdayDate(birthDate, now) ==
    LET nextBirthday == SetYear(birthDate, now[1])
    IN  IF DayNumber(nextBirthday) < DayNumber(now) THEN AddYear(nextBirthday)
        ELSE nextBirthday

\* a.diff(b, 'days') for a the local midnight of the date a and b the instant
\* minute minutes into the date now: the whole days of the difference,
\* truncated toward zero
DiffDays(a, now, minute) ==
    LET x == (DayNumber(a) - DayNumber(now)) * 1440 - minute
    IN  IF x >= 0 THEN x \div 1440 ELSE -((-x) \div 1440)

\* any step but a run of createTomorrowReminders ends a streak of such runs
EndMat == matStreak' = 0 /\ matCreated' = 0 /\ matDate' = <<>>

\* a step that is no run of createTomorrowReminders and raises no error
EndStreak == EndMat /\ thrown' = NoError

(***************************************************************************)
(* CronScheduler: start, stop and the job bodies.                          *)
(***************************************************************************)
\* a start() that registers its jobs whatever isRunning is
startAlwaysRegisters(running) == FALSE

\* if (this.isRunning) return: whether start() returns before registering
startReturnsEarly(running) == running

start ==
    /\ IF startReturnsEarly(isRunning)
       THEN UNCHANGED <<isRunning, jobs, tasks>>
       ELSE /\ jobs' = jobs \cup {"birthdayCheck", "cleanup", "reminderCreation"}
            /\ tasks' = [n \in TaskNames |->
                            IF n \in JobNames THEN tasks[n] + 1 ELSE tasks[n]]
            /\ isRunning' = TRUE
    /\ EndStreak
    /\ UNCHANGED <<today, clock, storeVars, run, ctr, runHist, deletedCount, envVars>>

\* stop(): job.stop() for every entry of this.jobs, then this.jobs.clear()
stop ==
    /\ IF ~isRunning
       THEN UNCHANGED <<isRunning, jobs, tasks>>
       ELSE /\ tasks' = [n \in TaskNames |-> IF n \in jobs THEN tasks[n] - 1 ELSE tasks[n]]
            /\ jobs' = {}
            /\ isRunning' = FALSE
    /\ EndStreak
    /\ UNCHANGED <<today, clock, storeVars, run, ctr, runHist, deletedCount, envVars>>

\* a job body without its try/catch lets every error out
JobBodyNoCatch(body) == TRUE

\* whether an error raised inside the job body leaves it: the try/catch of
\* checkTodaysBirthdays, createTomorrowReminders and cleanupOldReminders spans
\* the whole body and logs the error
JobBodyRethrows(body) == FALSE

\* where an error raised inside a job body ends
Outcome(body) == <<body, IF JobBodyRethrows(body) THEN "escaped" ELSE "caught">>

\* createTomorrowReminders: reminderRepository.createRemindersForDate is not a
\* method of the repository (ReminderRepositoryMethods), so the call throws a
\* TypeError before any statement reaches the store; the catch logs it.
createTomorrowReminders ==
    /\ ~HasMethod("createRemindersForDate")
    /\ matStreak' = Min(matStreak + 1, 2)
    /\ matCreated' = -1
    /\ matDate' = FormatMD(AddDays(moment, 1))
    /\ thrown' = Outcome("createTomorrowReminders")
    /\ UNCHANGED storeVars

\* cleanupOldReminders: deleteOldReminders(7)
cleanupOldReminders ==
    /\ IF storeUp
       THEN /\ reminders' = deleteOldReminders(reminders, moment, RetentionDays)
            /\ deletedCount' = Cardinality(reminders) - Cardinality(reminders')
            /\ thrown' = NoError
       ELSE /\ UNCHANGED <<reminders, deletedCount>>
            /\ thrown' = Outcome("cleanupOldReminders")
    /\ UNCHANGED <<groups, birthdays, nextBid>>

\* a run of checkTodaysBirthdays begins
BeginRun(r) ==
    /\ run' = [run EXCEPT ![r] = [pc |-> "query", list |-> <<>>, idx |-> 1]]
    /\ sentIn' = [sentIn EXCEPT ![r] = {}]
    /\ failedIn' = [failedIn EXCEPT ![r] = {}]
    /\ markedIn' = [markedIn EXCEPT ![r] = {}]
    /\ UNCHANGED <<delivered, owed>>

(***************************************************************************)
(* The cron instants of a day in the scheduler timezone: 00:00, 02:00,     *)
(* 23:59.  A job fires when a live task of it exists.                      *)
(***************************************************************************)
cronReminderCreation ==
    /\ clock = 1
    /\ Quiet
    /\ clock' = 2
    /\ IF tasks["reminderCreation"] > 0
       THEN createTomorrowReminders
       ELSE EndStreak /\ UNCHANGED storeVars
    /\ UNCHANGED <<today, schedVars, run, ctr, runHist, deletedCount, envVars>>

cronBirthdayCheck(maxDays) ==
    /\ clock = 2
    /\ Quiet
    /\ DayNumber(today) - DayNumber(StartDate) < maxDays
    /\ clock' = 0
    /\ today' = AddDays(today, 1)
    /\ IF tasks["birthdayCheck"] > 0
       THEN BeginRun("cron")
       ELSE UNCHANGED <<run, runHist>>
    /\ EndStreak
    /\ UNCHANGED <<schedVars, storeVars, ctr, deletedCount, envVars>>

cronCleanup ==
    /\ clock = 0
    /\ Quiet
    /\ clock' = 1
    /\ IF tasks["cleanup"] > 0
       THEN cleanupOldReminders /\ EndMat
       ELSE UNCHANGED <<storeVars, deletedCount>> /\ EndStreak
    /\ UNCHANGED <<today, schedVars, run, ctr, runHist, envVars>>

(***************************************************************************)
(* scheduleTestJob: a task at one minute of the day, in the process's      *)
(* timezone, registered under the key 'test' whatever isRunning is.  Its   *)
(* callback runs checkTodaysBirthdays and then deletes the key; it never   *)
(* stops the task.                                                         *)
(***************************************************************************)
scheduleTestJob ==
    /\ tasks["test"] < MaxTestTasks
    /\ jobs' = jobs \cup {"test"}
    /\ tasks' = [tasks EXCEPT !["test"] = @ + 1]
    /\ EndStreak
    /\ UNCHANGED <<today, clock, isRunning, storeVars, run, ctr, runHist,
                   deletedCount, envVars>>

\* the minute of the test job comes: await this.checkTodaysBirthdays()
testJobFires ==
    /\ tasks["test"] > 0
    /\ run["test"].pc = "idle"
    /\ BeginRun("test")
    /\ EndStreak
    /\ UNCHANGED <<today, clock, schedVars, storeVars, ctr, deletedCount, envVars>>

\* checkTodaysBirthdays has returned to the callback: this.jobs.delete('test')
testJobDone ==
    /\ run["test"].pc = "done"
    /\ run' = [run EXCEPT !["test"] = IdleRun]
    /\ jobs' = jobs \ {"test"}
    /\ EndStreak
    /\ UNCHANGED <<today, clock, isRunning, tasks, storeVars, ctr, runHist,
                   deletedCount, envVars>>

(***************************************************************************)
(* Manual triggers (POST /trigger/...).                                    *)
(***************************************************************************)
triggerBirthdayCheck ==
    /\ run["manual"].pc \in {"idle", "done"}
    /\ BeginRun("manual")
    /\ EndStreak
    /\ UNCHANGED <<today, clock, schedVars, storeVars, ctr, deletedCount, envVars>>

triggerReminderCreation ==
    /\ createTomorrowReminders
    /\ UNCHANGED <<today, clock, schedVars, run, ctr, runHist, deletedCount, envVars>>

(***************************************************************************)
(* checkTodaysBirthdays, one await at a time.                              *)
(***************************************************************************)
\* const pendingReminders = await reminderRepository.getPendingReminders():
\* the rows, or the error of the store in the catch of the body
checkTodaysBirthdays(r) ==
    /\ run[r].pc = "query"
    /\ IF storeUp
       THEN /\ \E rows \in getPendingReminders(FormatYMD(moment)) :
                  run' = [run EXCEPT ![r] =
                            IF Len(rows) = 0 THEN DoneRun
                            ELSE [pc |-> "send",
                                  list |-> [i \in 1..Len(rows) |->
                                             [id |-> rows[i].id, group_id |-> rows[i].group_id]],
                                  idx |-> 1]]
            /\ thrown' = NoError
       ELSE /\ run' = [run EXCEPT ![r] = DoneRun]
            /\ thrown' = Outcome("checkTodaysBirthdays")
    /\ EndMat
    /\ UNCHANGED <<today, clock, schedVars, storeVars, ctr, runHist, deletedCount, envVars>>

\* a processBirthdayReminder without its try/catch: the error of a failed send
\* leaves it and ends the loop of checkTodaysBirthdays in the outer catch
processBirthdayReminderNoCatch(ok) == ~ok

\* whether an error raised inside processBirthdayReminder leaves it: its
\* try/catch logs every error, the failed send's included
processBirthdayReminderRethrows(ok) == FALSE

\* processBirthdayReminder(reminder): whatsappClient.sendMessage, which throws
\* when the client is not ready or the send fails, then
\* reminderRepository.markReminderAsSent(id), which is not a method of the
\* repository: the TypeError is caught and logged like a failed send, and so
\* would be an error of the store.
processBirthdayReminder(r) ==
    /\ run[r].pc = "send"
    /\ LET rec == run[r].list[run[r].idx]
           marks == HasMethod("markReminderAsSent") /\ storeUp
       IN  \E ok \in BOOLEAN :
             /\ delivered' = IF ok THEN delivered \cup {rec.id} ELSE delivered
             /\ owed' = IF ok THEN owed \ {rec.id} ELSE owed \cup {rec.id}
             /\ reminders' = IF ok /\ marks
                              THEN markReminderSent(reminders, rec.id, CurrentTimestamp)
                              ELSE reminders
             /\ thrown' = IF processBirthdayReminderRethrows(ok)
                          THEN Outcome("checkTodaysBirthdays")
                          ELSE NoError
             /\ IF processBirthdayReminderRethrows(ok)
                THEN /\ run' = [run EXCEPT ![r] = DoneRun]
                     /\ sentIn' = [sentIn EXCEPT ![r] = {}]
                     /\ failedIn' = [failedIn EXCEPT ![r] = {}]
                     /\ markedIn' = [markedIn EXCEPT ![r] = {}]
                ELSE /\ run' = [run EXCEPT ![r].pc = "delay"]
                     /\ sentIn' = IF ok THEN [sentIn EXCEPT ![r] = @ \cup {rec.id}]
                                  ELSE sentIn
                     /\ failedIn' = IF ok THEN failedIn
                                    ELSE [failedIn EXCEPT ![r] = @ \cup {rec.id}]
                     /\ markedIn' = IF ok /\ marks
                                    THEN [markedIn EXCEPT ![r] = @ \cup {rec.id}]
                                    ELSE markedIn
    /\ EndMat
    /\ UNCHANGED <<today, clock, schedVars, groups, birthdays, nextBid, ctr, deletedCount,
                   envVars>>

\* a delay after which the loop stays on a reminder whose send failed
delayRetriesFailed(r) ==
    /\ run[r].pc = "delay"
    /\ IF run[r].list[run[r].idx].id \in failedIn[r]
       THEN /\ run' = [run EXCEPT ![r].pc = "send"]
            /\ UNCHANGED <<sentIn, failedIn, markedIn>>
       ELSE IF run[r].idx + 1 > Len(run[r].list)
       THEN /\ run' = [run EXCEPT ![r] = DoneRun]
            /\ sentIn' = [sentIn EXCEPT ![r] = {}]
            /\ failedIn' = [failedIn EXCEPT ![r] = {}]
            /\ markedIn' = [markedIn EXCEPT ![r] = {}]
       ELSE /\ run' = [run EXCEPT ![r].idx = @ + 1, ![r].pc = "send"]
            /\ UNCHANGED <<sentIn, failedIn, markedIn>>
    /\ EndStreak
    /\ UNCHANGED <<today, clock, schedVars, storeVars, ctr, delivered, owed, deletedCount,
                   envVars>>

\* await this.delay(1000), then the next reminder of the list or the return
delay(r) ==
    /\ run[r].pc = "delay"
    /\ IF run[r].idx + 1 > Len(run[r].list)
       THEN /\ run' = [run EXCEPT ![r] = DoneRun]
            /\ sentIn' = [sentIn EXCEPT ![r] = {}]
            /\ failedIn' = [failedIn EXCEPT ![r] = {}]
            /\ markedIn' = [markedIn EXCEPT ![r] = {}]
       ELSE /\ run' = [run EXCEPT ![r].idx = @ + 1, ![r].pc = "send"]
            /\ UNCHANGED <<sentIn, failedIn, markedIn>>
    /\ EndStreak
    /\ UNCHANGED <<today, clock, schedVars, storeVars, ctr, delivered, owed, deletedCount,
                   envVars>>

(***************************************************************************)
(* ReminderRepository methods called on the exported repository object.    *)
(* A call made while the store is down rejects and changes nothing.        *)
(***************************************************************************)
\* createTodaysReminders: today, todayMD and the SELECT
createTodaysReminders(c) ==
    /\ ctr[c].pc = "idle"
    /\ storeUp
    /\ LET todo == BirthdaysWithoutReminder(FormatMD(moment), FormatYMD(moment))
       IN  ctr' = [ctr EXCEPT ![c] =
                     [pc |-> IF todo = {} THEN "idle" ELSE "insert",
                      date |-> IF todo = {} THEN <<>> ELSE FormatYMD(moment),
                      todo |-> todo, created |-> 0]]
    /\ EndStreak
    /\ UNCHANGED <<today, clock, schedVars, storeVars, run, runHist, deletedCount, tz, proc, cmdVars,
                   storeUp, adds>>

\* crypto.randomUUID(): an id no row has.  The fresh id is named after the
\* pair it is drawn for and the number of rows the pair already has; rows of a
\* date are inserted on that date only and deleted days later, so no name recurs.
randomUUID(birthdayId, reminderDate) ==
    <<birthdayId, reminderDate,
      1 + Cardinality({rec \in reminders :
                          rec.birthday_id = birthdayId /\ rec.reminder_date = reminderDate})>>

\* createReminder(birthday.birthday_id, today) for the next row of the SELECT
createReminder(c) ==
    /\ ctr[c].pc = "insert"
    /\ storeUp
    /\ Cardinality(reminders) < MaxReminders
    /\ \E b \in ctr[c].todo :
          /\ reminders' = reminders \cup
                {[id |-> randomUUID(b, ctr[c].date), birthday_id |-> b, reminder_date |-> ctr[c].date,
                  sent |-> FALSE, sent_at |-> <<>>]}
          /\ ctr' = [ctr EXCEPT ![c] =
                       IF ctr[c].todo = {b} THEN IdleCall
                       ELSE [@ EXCEPT !.todo = @ \ {b}, !.created = @ + 1]]
    /\ EndStreak
    /\ UNCHANGED <<today, clock, schedVars, groups, birthdays, nextBid, run, runHist,
                   deletedCount, envVars>>

\* markReminderSent(reminderId), called with the id of a reminder pending today
markReminderSentCall ==
    /\ storeUp
    /\ \E rec \in reminders :
          /\ rec.reminder_date = FormatYMD(moment)
          /\ rec.sent = FALSE
          /\ reminders' = markReminderSent(reminders, rec.id, CurrentTimestamp)
    /\ EndStreak
    /\ UNCHANGED <<today, clock, schedVars, groups, birthdays, nextBid, run, ctr,
                   runHist, deletedCount, envVars>>

\* markReminderSent(reminderId), called with the id of any reminder row
markReminderSentAnyCall ==
    /\ storeUp
    /\ \E rec \in reminders :
          reminders' = markReminderSent(reminders, rec.id, CurrentTimestamp)
    /\ EndStreak
    /\ UNCHANGED <<today, clock, schedVars, groups, birthdays, nextBid, run, ctr,
                   runHist, deletedCount, envVars>>

(***************************************************************************)
(* /addbirthday DD/MM from a member of the sample group.                   *)
(***************************************************************************)
\* createOrUpdateGroup(groupId, groupName): INSERT OR REPLACE, bot_active = true
createOrUpdateGroup(groupId, groupName) ==
    {g \in groups : g.group_id # groupId} \cup
        {[group_id |-> groupId, group_name |-> groupName, bot_active |-> TRUE]}

\* addOrUpdateBirthday(phoneNumber, birthDate, groupId): the rows afterwards
addOrUpdateBirthday(phoneNumber, birthDate, groupId) ==
    IF \E b \in birthdays : b.phone_number = phoneNumber /\ b.group_id = groupId
    THEN {IF b.phone_number = phoneNumber /\ b.group_id = groupId
          THEN [b EXCEPT !.birth_date = birthDate] ELSE b : b \in birthdays}
    ELSE birthdays \cup {[id |-> nextBid, phone_number |-> phoneNumber,
                          birth_date |-> birthDate, group_id |-> groupId]}

\* a request that no other request interleaves with
handleAddBirthday(p, input) ==
    /\ storeUp
    /\ \A c \in Callers : adds[c].pc = "idle"
    /\ validateDate(input, moment).isValid
    /\ IF \E b \in birthdays : b.phone_number = p /\ b.group_id = SampleGroup
       THEN TRUE
       ELSE nextBid <= MaxBirthdays
    /\ groups' = createOrUpdateGroup(SampleGroup, "Family Group")
    /\ birthdays' = addOrUpdateBirthday(p, FormatYMD(validateDate(input, moment).date),
                                        SampleGroup)
    /\ nextBid' = IF Cardinality(birthdays') > Cardinality(birthdays)
                  THEN nextBid + 1 ELSE nextBid
    /\ EndStreak
    /\ UNCHANGED <<today, clock, schedVars, reminders, run, ctr, runHist, deletedCount,
                   envVars>>

\* a request up to the result of addOrUpdateBirthday's first await:
\* existingBirthday = await this.getBirthdayByUserAndGroup(phoneNumber, groupId)
getBirthdayByUserAndGroup(c, p, input) ==
    /\ storeUp
    /\ adds[c].pc = "idle"
    /\ validateDate(input, moment).isValid
    /\ groups' = createOrUpdateGroup(SampleGroup, "Family Group")
    /\ adds' = [adds EXCEPT ![c] =
                  [pc |-> "write", phone |-> p,
                   date |-> FormatYMD(validateDate(input, moment).date),
                   existing |-> \E b \in birthdays :
                                   b.phone_number = p /\ b.group_id = SampleGroup]]
    /\ EndStreak
    /\ UNCHANGED <<today, clock, schedVars, birthdays, reminders, nextBid, run, ctr, runHist,
                   deletedCount, tz, proc, cmdVars, storeUp>>

\* the rest of addOrUpdateBirthday: the UPDATE if a row was found, else the INSERT
addOrUpdateBirthdayWrite(c) ==
    /\ storeUp
    /\ adds[c].pc = "write"
    /\ IF adds[c].existing
       THEN /\ birthdays' = {IF b.phone_number = adds[c].phone /\ b.group_id = SampleGroup
                             THEN [b EXCEPT !.birth_date = adds[c].date] ELSE b :
                                b \in birthdays}
            /\ UNCHANGED nextBid
       ELSE /\ nextBid <= MaxBirthdays
            /\ birthdays' = birthdays \cup
                  {[id |-> nextBid, phone_number |-> adds[c].phone,
                    birth_date |-> adds[c].date, group_id |-> SampleGroup]}
            /\ nextBid' = nextBid + 1
    /\ adds' = [adds EXCEPT ![c] = IdleAdd]
    /\ EndStreak
    /\ UNCHANGED <<today, clock, schedVars, groups, reminders, run, ctr, runHist,
                   deletedCount, tz, proc, cmdVars, storeUp>>

(***************************************************************************)
(* The store stops answering (the file is locked, the disk is full) and    *)
(* answers again.                                                          *)
(***************************************************************************)
storeFails ==
    /\ storeUp
    /\ storeUp' = FALSE
    /\ EndStreak
    /\ UNCHANGED <<today, clock, schedVars, storeVars, run, ctr, runHist, deletedCount, tz, proc, cmdVars,
                   adds>>

storeRecovers ==
    /\ ~storeUp
    /\ storeUp' = TRUE
    /\ EndStreak
    /\ UNCHANGED <<today, clock, schedVars, storeVars, run, ctr, runHist, deletedCount, tz, proc, cmdVars,
                   adds>>

(***************************************************************************)
(* The process is killed and started again: the store stays, every job     *)
(* body and call in flight is gone, the scheduler is newly constructed.    *)
(***************************************************************************)
crash ==
    /\ run' = [r \in Runs |-> IdleRun]
    /\ ctr' = [c \in Callers |-> IdleCall]
    /\ adds' = [c \in Callers |-> IdleAdd]
    /\ sentIn' = [r \in Runs |-> {}]
    /\ failedIn' = [r \in Runs |-> {}]
    /\ markedIn' = [r \in Runs |-> {}]
    /\ isRunning' = FALSE
    /\ jobs' = {}
    /\ tasks' = [n \in TaskNames |-> 0]
    /\ EndStreak
    /\ UNCHANGED <<today, clock, storeVars, delivered, owed, deletedCount, tz, proc, cmdVars, storeUp>>

\* SIGINT or SIGTERM: the handler of the scheduler module calls
\* cronScheduler.stop() and then process.exit(0); the process is started again
signalHandler ==
    /\ run' = [r \in Runs |-> IdleRun]
    /\ ctr' = [c \in Callers |-> IdleCall]
    /\ adds' = [c \in Callers |-> IdleAdd]
    /\ sentIn' = [r \in Runs |-> {}]
    /\ failedIn' = [r \in Runs |-> {}]
    /\ markedIn' = [r \in Runs |-> {}]
    /\ isRunning' = FALSE
    /\ jobs' = {}
    /\ tasks' = [n \in TaskNames |-> 0]
    /\ EndStreak
    /\ UNCHANGED <<today, clock, storeVars, delivered, owed, deletedCount, tz, proc, cmdVars, storeUp>>

(***************************************************************************)
(* /removebirthday and the GroupRepository methods that change a group.    *)
(***************************************************************************)
\* DELETE FROM birthdays WHERE phone_number = ? AND group_id = ?  (the schema
\* has no ON DELETE CASCADE and the connection never enables foreign keys:
\* the reminder rows of the birthday stay)
removeBirthday(rows, phoneNumber, groupId) ==
    {b \in rows : ~(b.phone_number = phoneNumber /\ b.group_id = groupId)}

\* handleRemoveBirthday: hasBirthdayInGroup, then removeBirthday
handleRemoveBirthday(p) ==
    /\ storeUp
    /\ IF \E b \in birthdays : b.phone_number = p /\ b.group_id = SampleGroup
       THEN /\ birthdays' = removeBirthday(birthdays, p, SampleGroup)
            /\ reply' = <<"removed", p, <<>>, 0>>
       ELSE /\ UNCHANGED birthdays
            /\ reply' = <<"nobirthday", p, <<>>, 0>>
    /\ EndStreak
    /\ UNCHANGED <<today, clock, schedVars, groups, reminders, nextBid, run, ctr, runHist,
                   deletedCount, tz, proc, storeUp, adds, group_members>>

\* updateBotStatus(groupId, botActive): UPDATE groups SET bot_active = ? WHERE group_id = ?
updateBotStatus(groupId, botActive) ==
    /\ storeUp
    /\ groups' = {IF g.group_id = groupId THEN [g EXCEPT !.bot_active = botActive] ELSE g :
                     g \in groups}
    /\ EndStreak
    /\ UNCHANGED <<today, clock, schedVars, birthdays, reminders, nextBid, run, ctr, runHist,
                   deletedCount, envVars>>

\* deleteGroup(groupId): DELETE FROM groups WHERE group_id = ?
deleteGroup(groupId) ==
    /\ storeUp
    /\ groups' = {g \in groups : g.group_id # groupId}
    /\ EndStreak
    /\ UNCHANGED <<today, clock, schedVars, birthdays, reminders, nextBid, run, ctr, runHist,
                   deletedCount, envVars>>

(***************************************************************************)
(* /mybirthday: the next birthday of the member and the days until it.     *)
(***************************************************************************)
handleMyBirthday(p) ==
    /\ storeUp
    /\ IF \E b \in birthdays : b.phone_number = p /\ b.group_id = SampleGroup
       THEN \E b \in birthdays :
               /\ b.phone_number = p
               /\ b.group_id = SampleGroup
               /\ LET nextBirthday == getNextBirthdayDate(ParseYMD(b.birth_date), moment)
                  IN  reply' = <<"mybirthday", p, nextBirthday,
                                 DiffDays(nextBirthday, moment, MinuteOfDay)>>
       ELSE reply' = <<"nobirthday", p, <<>>, 0>>
    /\ EndStreak
    /\ UNCHANGED <<today, clock, schedVars, storeVars, run, ctr, runHist,
                   deletedCount, tz, proc, storeUp, adds, group_members>>

(***************************************************************************)
(* A message '/addbirthday <argument>' on its way through the client, the  *)
(* message handler and the command parser.                                 *)
(***************************************************************************)
\* handleAddBirthday(message, chat, contact, args) with its reply
handleAddBirthdayReply(p, input) ==
    LET validation == validateDate(input, moment)
    IN  IF validation.isValid
        THEN /\ IF \E b \in birthdays : b.phone_number = p /\ b.group_id = SampleGroup
                THEN TRUE
                ELSE nextBid <= MaxBirthdays
             /\ birthdays' = addOrUpdateBirthday(p, FormatYMD(validation.date), SampleGroup)
             /\ nextBid' = IF Cardinality(birthdays') > Cardinality(birthdays)
                           THEN nextBid + 1 ELSE nextBid
             /\ reply' = <<"added", p, input, 0>>
        ELSE /\ UNCHANGED <<birthdays, nextBid>>
             /\ reply' = <<"invalid", p, input, 0>>

\* parseCommand(message, chat, contact) for the body '/addbirthday <argument>'
parseCommand(p, input) ==
    /\ storeUp
    /\ \A c \in Callers : adds[c].pc = "idle"
    /\ handleAddBirthdayReply(p, input)
    /\ EndStreak
    /\ UNCHANGED <<today, clock, schedVars, groups, reminders, run, ctr, runHist,
                   deletedCount, tz, proc, storeUp, adds, group_members>>

\* isMemberOfGroup(phoneNumber, groupId)
isMemberOfGroup(phoneNumber, groupId) ==
    \E gm \in group_members : gm.phone_number = phoneNumber /\ gm.group_id = groupId

\* addMemberToGroup(phoneNumber, groupId): the rows after the INSERT OR REPLACE
addMemberToGroup(phoneNumber, groupId) ==
    group_members \cup {[phone_number |-> phoneNumber, group_id |-> groupId]}

\* WhatsAppClient.handleMessage for a group message of the member p: the user
\* and the group are stored, the member is added to the group if
\* isMemberOfGroup finds no row, and then the message handlers run.
\* addMemberToGroup begins with uuidv4(), and uuidv4 is the export v4 of the
\* module crypto, which has none: the call throws a TypeError, which leaves
\* handleMessage before the handlers and is logged by the 'message' listener.
handleMessage(ready, p, input) ==
    /\ storeUp
    /\ \A c \in Callers : adds[c].pc = "idle"
    /\ IF ~ready
       THEN /\ UNCHANGED <<groups, birthdays, nextBid, group_members>>
            /\ reply' = <<"ignored", p, input, 0>>
       ELSE /\ groups' = createOrUpdateGroup(SampleGroup, "Family Group")
            /\ IF isMemberOfGroup(p, SampleGroup)
               THEN /\ UNCHANGED group_members
                    /\ handleAddBirthdayReply(p, input)
               ELSE IF "v4" \in CryptoExports
               THEN /\ group_members' = addMemberToGroup(p, SampleGroup)
                    /\ handleAddBirthdayReply(p, input)
               ELSE /\ UNCHANGED <<birthdays, nextBid, group_members>>
                    /\ reply' = <<"error", p, input, 0>>
    /\ EndStreak
    /\ UNCHANGED <<today, clock, schedVars, reminders, run, ctr, runHist,
                   deletedCount, tz, proc, storeUp, adds>>

(***************************************************************************)
(* /upcoming: the birthdays of the group, sorted by their next date as     *)
(* SQLite computes it, and cut after the first `days` rows.                *)
(***************************************************************************)
\* 'now' of SQLite: the date in UTC, one hour behind the scheduler timezone
SqliteNow == LocalDate(today, clock, -1)

\* julianday() of a year and a month and day the year may not have: the days
\* past the end of the month run into the next month
Julianday(y, md) == DayNumber(<<y, md[1], 1>>) + md[2] - 1

\* the column next_birthday of getUpcomingBirthdays, as a day number
next_birthday(b) ==
    LET md  == <<ParseYMD(b.birth_date)[2], ParseYMD(b.birth_date)[3]>>
        now == SqliteNow
    IN  IF md[1] > now[2] \/ (md[1] = now[2] /\ md[2] >= now[3])
        THEN Julianday(now[1], md)
        ELSE Julianday(now[1] + 1, md)

\* getUpcomingBirthdays(groupId, days): whether the sequence of birthday ids is
\* a result of SELECT ... WHERE b.group_id = ? ORDER BY next_birthday LIMIT ?
\* (rows of equal next_birthday come in either order)
getUpcomingBirthdays(list, groupId, days) ==
    LET rows == {b \in birthdays : b.group_id = groupId}
        row(id) == CHOOSE b \in rows : b.id = id
    IN  /\ Len(list) = Min(Cardinality(rows), days)
        /\ \A i \in 1..Len(list) : \E b \in rows : b.id = list[i]
        /\ \A i, j \in 1..Len(list) : i < j =>
              /\ list[i] # list[j]
              /\ next_birthday(row(list[i])) <= next_birthday(row(list[j]))
        /\ \A b \in rows : (\A i \in 1..Len(list) : list[i] # b.id) =>
              \A i \in 1..Len(list) : next_birthday(row(list[i])) <= next_birthday(b)

\* the sequences of at most n birthday ids
IdLists(n) == UNION {[1..k -> {b.id : b \in birthdays}] : k \in 0..n}

\* handleUpcoming(message, chat, contact, args) of the member p with args[0] = days
handleUpcoming(p, days) ==
    /\ storeUp
    /\ IF days < 1 \/ days > 365
       THEN reply' = <<"invaliddays", p, <<>>, days>>
       ELSE \E list \in IdLists(Cardinality(birthdays)) :
               /\ getUpcomingBirthdays(list, SampleGroup, days)
               /\ reply' = <<"upcoming", p, list, days>>
    /\ EndStreak
    /\ UNCHANGED <<today, clock, schedVars, storeVars, run, ctr, runHist,
                   deletedCount, tz, proc, storeUp, adds, group_members>>

(***************************************************************************)
(* Group messages of any text: the client's handleMessage, the bot's       *)
(* message handler it calls, and the first test of parseCommand.           *)
(***************************************************************************)
\* String.prototype.startsWith for a one-token prefix
startsWith(body, prefix) == Len(body) > 0 /\ body[1] = prefix

\* String.prototype.toLowerCase
toLowerCase(body) ==
    [i \in 1..Len(body) |->
        CASE body[i] = "Birthday" -> "birthday"
          [] body[i] = "Happy" -> "happy"
          [] body[i] = "Reminder" -> "reminder"
          [] OTHER -> body[i]]

\* String.prototype.includes for a one-token text
includes(body, word) == \E i \in 1..Len(body) : body[i] = word

\* the test that lets every message of the bot's own account through
skipNothing(fromMe, body) == FALSE

\* WhatsAppClient.handleMessage: skip messages from the bot itself unless they
\* are commands
skipOwnMessage(fromMe, body) == fromMe /\ ~startsWith(body, "/")

\* BirthdayReminderBot.handleMessage after updateUserInfo: parseCommand, and
\* the hint for a text that is no command and mentions the word birthday
commandOrHint(p, body) ==
    IF startsWith(body, "/")
    THEN reply' = <<IF body = HelpCommand THEN "help" ELSE "unknown", p, body, 0>>
    ELSE IF includes(toLowerCase(body), "birthday")
    THEN reply' = <<"hint", p, body, 0>>
    ELSE reply' = <<"nothing", p, body, 0>>

\* BirthdayReminderBot.handleMessage(message, chat, contact) for a group
\* message: updateUserInfo stores the user and the group (and catches the
\* error of addMemberToGroup), then the text is parsed
botHandleMessage(p, body) ==
    /\ storeUp
    /\ groups' = createOrUpdateGroup(SampleGroup, "Family Group")
    /\ IF isMemberOfGroup(p, SampleGroup) \/ "v4" \notin CryptoExports
       THEN UNCHANGED group_members
       ELSE group_members' = addMemberToGroup(p, SampleGroup)
    /\ commandOrHint(p, body)
    /\ EndStreak
    /\ UNCHANGED <<today, clock, schedVars, birthdays, reminders, nextBid, run, ctr,
                   runHist, deletedCount, tz, proc, storeUp, adds>>

\* WhatsAppClient.handleMessage for a group message with the text body, sent
\* by p or by the bot's own account
handleMessageFrom(fromMe, p, body) ==
    /\ storeUp
    /\ IF skipOwnMessage(fromMe, body)
       THEN /\ UNCHANGED <<groups, group_members>>
            /\ reply' = <<"skipped", p, body, 0>>
       ELSE /\ groups' = createOrUpdateGroup(SampleGroup, "Family Group")
            /\ IF isMemberOfGroup(p, SampleGroup)
               THEN /\ UNCHANGED group_members
                    /\ commandOrHint(p, body)
               ELSE IF "v4" \in CryptoExports
               THEN /\ group_members' = addMemberToGroup(p, SampleGroup)
                    /\ commandOrHint(p, body)
               ELSE /\ UNCHANGED group_members
                    /\ reply' = <<"error", p, body, 0>>
    /\ EndStreak
    /\ UNCHANGED <<today, clock, schedVars, birthdays, reminders, nextBid, run, ctr,
                   runHist, deletedCount, tz, proc, storeUp, adds>>

\* the message event of the reply the bot has just sent, if the client
\* receives its own messages
ownMessage ==
    /\ reply[1] \in SentKinds
    /\ handleMessageFrom(TRUE, BotAccount, ReplyText(reply[1]))

(***************************************************************************)
(* The process: initialize() of the bot, one await at a time, the signal   *)
(* listeners, and the restart of a process that has exited.                *)
(***************************************************************************)
\* process.exit(code) with the connections as they are
Exited(code, sig) == [proc EXCEPT !.pc = "exited", !.exitCode = code, !.signal = sig]

\* initialize(), initializeDatabase(), database.init(): new sqlite3.Database
\* calls back; an error rejects, initializeDatabase rethrows it and the catch
\* of initialize() calls process.exit(1)
databaseInit(reachable) ==
    /\ proc.pc = "constructed"
    /\ proc' = IF reachable
               THEN [proc EXCEPT !.pc = "createTables", !.database = "open",
                                 !.reachable = TRUE]
               ELSE [Exited(1, "none") EXCEPT !.reachable = FALSE]
    /\ EndStreak
    /\ UNCHANGED <<today, clock, schedVars, storeVars, run, ctr, runHist, deletedCount,
                   tz, storeUp, adds, cmdVars>>

\* createTables() has resolved and initialize() goes on without a break:
\* initializeWhatsApp() adds the message handler and calls
\* whatsappClient.setQRCodeHandler, which is no method of the client
\* (WhatsAppClientMethods): the TypeError is rethrown and the catch of
\* initialize() calls process.exit(1).  Were the two setters there,
\* whatsappClient.init() would follow and, if it resolves, startScheduler()
\* with cronScheduler.start() and startServer().
initializeWhatsApp(canConnect) ==
    /\ proc.pc = "createTables"
    /\ IF {"setQRCodeHandler", "setAuthenticatedHandler"} \subseteq WhatsAppClientMethods
          /\ canConnect
       THEN /\ proc' = [proc EXCEPT !.pc = "initialized", !.client = "initialized",
                                    !.canConnect = canConnect]
            /\ IF startReturnsEarly(isRunning)
               THEN UNCHANGED <<isRunning, jobs, tasks>>
               ELSE /\ jobs' = jobs \cup {"birthdayCheck", "cleanup", "reminderCreation"}
                    /\ tasks' = [n \in TaskNames |->
                                    IF n \in JobNames THEN tasks[n] + 1 ELSE tasks[n]]
                    /\ isRunning' = TRUE
       ELSE /\ proc' = [Exited(1, "none") EXCEPT !.canConnect = canConnect]
            /\ UNCHANGED <<isRunning, jobs, tasks>>
    /\ EndStreak
    /\ UNCHANGED <<today, clock, storeVars, run, ctr, runHist, deletedCount,
                   tz, storeUp, adds, cmdVars>>

\* SIGINT or SIGTERM reaches the process.  The listeners run in the order of
\* their registration: the one of the scheduler module, registered when
\* index.js requires the module, before the one the constructor of the bot
\* registers.  It calls cronScheduler.stop() and process.exit(0): the process
\* ends there, and the shutdown of the bot (stop the scheduler, destroy the
\* client, close the database, close the server, exit) is never called.
processSignal(sig) ==
    /\ proc.pc # "exited"
    /\ proc' = Exited(0, sig)
    /\ IF ~isRunning
       THEN UNCHANGED <<isRunning, jobs, tasks>>
       ELSE /\ tasks' = [n \in TaskNames |-> IF n \in jobs THEN tasks[n] - 1 ELSE tasks[n]]
            /\ jobs' = {}
            /\ isRunning' = FALSE
    /\ EndStreak
    /\ UNCHANGED <<today, clock, storeVars, run, ctr, runHist, deletedCount,
                   tz, storeUp, adds, cmdVars>>

\* the process that has exited is started again
restartProcess ==
    /\ proc.pc = "exited"
    /\ proc' = NewProcess
    /\ isRunning' = FALSE
    /\ jobs' = {}
    /\ tasks' = [n \in TaskNames |-> 0]
    /\ EndStreak
    /\ UNCHANGED <<today, clock, storeVars, run, ctr, runHist, deletedCount,
                   tz, storeUp, adds, cmdVars>>

SchedulerSteps == start \/ stop \/ crash

ClockSteps(maxDays) == cronReminderCreation \/ cronBirthdayCheck(maxDays) \/ cronCleanup

DispatchSteps(R) ==
    \/ \E r \in R : checkTodaysBirthdays(r)
    \/ \E r \in R : processBirthdayReminder(r)
    \/ \E r \in R : delay(r)

CreateSteps(C) ==
    \/ \E c \in C : createTodaysReminders(c)
    \/ \E c \in C : createReminder(c)

AddSteps(inputs) == \E p \in Senders, input \in inputs : handleAddBirthday(p, input)

\* the dispatcher: the scheduled and the manual run over records one caller creates
DispatchNext ==
    \/ SchedulerSteps
    \/ ClockSteps(MaxDays)
    \/ triggerBirthdayCheck
    \/ DispatchSteps(Runs)
    \/ CreateSteps({"a"})
    \/ AddSteps({<<15, 3>>})

DispatchSpec == Init /\ [][DispatchNext]_vars

\* materialization: the job, the manual trigger and two concurrent callers of
\* createTodaysReminders
CreateNext ==
    \/ SchedulerSteps
    \/ ClockSteps(MaxDays)
    \/ triggerReminderCreation
    \/ DispatchSteps({"cron"})
    \/ CreateSteps(Callers)
    \/ AddSteps({<<15, 3>>})

CreateSpec == Init /\ [][CreateNext]_vars

\* retention: records are created and marked sent while the days pass
RetentionNext ==
    \/ start
    \/ ClockSteps(MaxSweepDays)
    \/ DispatchSteps({"cron"})
    \/ CreateSteps({"a"})
    \/ markReminderSentCall
    \/ AddSteps(AddInputs)

RetentionSpec == Init /\ [][RetentionNext]_vars

\* mark-sent: any row is marked, again and again, while the days pass
MarkNext ==
    \/ ClockSteps(MaxMarkDays)
    \/ CreateSteps({"a"})
    \/ markReminderSentAnyCall
    \/ AddSteps({<<15, 3>>})

MarkSpec == Init /\ [][MarkNext]_vars

\* /addbirthday: two requests in flight at a time, each in its two steps
AddNext ==
    \/ \E c \in Callers, p \in Senders, input \in AddInputs :
          getBirthdayByUserAndGroup(c, p, input)
    \/ \E c \in Callers : addOrUpdateBirthdayWrite(c)
    \/ AddSteps(AddInputs)
    \/ crash

AddSpec == Init /\ [][AddNext]_vars

\* the scheduler: start, stop, the signal handler and the test job
SchedNext ==
    \/ start
    \/ stop
    \/ signalHandler
    \/ scheduleTestJob
    \/ testJobFires
    \/ testJobDone
    \/ ClockSteps(MaxDays)
    \/ DispatchSteps({"cron", "test"})
    \/ CreateSteps({"a"})

SchedSpec == Init /\ [][SchedNext]_vars

\* the jobs over a store that fails and recovers
FaultNext ==
    \/ start
    \/ storeFails
    \/ storeRecovers
    \/ ClockSteps(MaxDays)
    \/ triggerBirthdayCheck
    \/ triggerReminderCreation
    \/ DispatchSteps({"cron", "manual"})
    \/ CreateSteps({"a"})
    \/ AddSteps({<<15, 3>>})

FaultSpec == Init /\ [][FaultNext]_vars

\* the jobs in a process of any timezone
ZoneNext ==
    \/ start
    \/ ClockSteps(MaxDays)
    \/ triggerReminderCreation
    \/ DispatchSteps({"cron"})
    \/ CreateSteps({"a"})
    \/ AddSteps({<<14, 3>>, <<15, 3>>})

ZoneSpec == ZoneInit /\ [][ZoneNext]_vars

\* birthdays are removed and groups deactivated or deleted between the steps
\* of materialization and of a dispatch run
LifecycleNext ==
    \/ start
    \/ ClockSteps(MaxDays)
    \/ DispatchSteps({"cron"})
    \/ CreateSteps({"a"})
    \/ \E p \in Phones : handleRemoveBirthday(p)
    \/ \E botActive \in BOOLEAN : updateBotStatus(SampleGroup, botActive)
    \/ deleteGroup(SampleGroup)
    \/ AddSteps({<<15, 3>>})

LifecycleSpec == Init /\ [][LifecycleNext]_vars

\* orphans: birthdays are removed while records are created and the days pass
OrphanNext ==
    \/ start
    \/ ClockSteps(MaxSweepDays)
    \/ CreateSteps({"a"})
    \/ \E p \in Phones : handleRemoveBirthday(p)

OrphanSpec == Init /\ [][OrphanNext]_vars

\* the store a year of use leaves: the rows of init.sql and the birthday Ada
\* registered with /addbirthday 29/02 in 2024
StoredBirthdays ==
    SampleBirthdays \cup
        {[id |-> 3, phone_number |-> Ada, birth_date |-> FormatYMD(<<2024, 2, 29>>),
          group_id |-> SampleGroup]}

\* the process on any of the days RefDates, after any of the cron instants
DateInit ==
    /\ \E date \in RefDates, instant \in 0..2 : InitAt(date, instant, StoredBirthdays, 4)
    /\ tz = 0

\* the date computations: /mybirthday and createTodaysReminders over the years
DateNext ==
    \/ \E p \in Phones : handleMyBirthday(p)
    \/ CreateSteps({"a"})

DateSpec == DateInit /\ [][DateNext]_vars

\* the process on either of the days CommandDates over the store of init.sql
CommandInit ==
    /\ \E date \in CommandDates : InitAt(date, 1, SampleBirthdays, 3)
    /\ tz = 0

\* /addbirthday with good and bad arguments, called on the parser and sent
\* through the client
CommandNext ==
    \/ \E p \in Senders, input \in CommandInputs : parseCommand(p, input)
    \/ \E ready \in BOOLEAN, p \in Senders, input \in CommandInputs :
          handleMessage(ready, p, input)
    \/ ClockSteps(MaxDays)

CommandSpec == CommandInit /\ [][CommandNext]_vars

\* /upcoming on any of the days RefDates over the stored birthdays, which the
\* members may change with /addbirthday
UpcomingNext ==
    \/ \E p \in Senders, days \in UpcomingArgs : handleUpcoming(p, days)
    \/ AddSteps(AddInputs)

UpcomingSpec == DateInit /\ [][UpcomingNext]_vars

\* group messages of any text, from members and from the bot's own account,
\* in a group whose bot an admin may switch off and on
MessageNext ==
    \/ \E p \in Senders, body \in MessageBodies : botHandleMessage(p, body)
    \/ \E fromMe \in BOOLEAN, p \in Senders, body \in MessageBodies :
          handleMessageFrom(fromMe, p, body)
    \/ ownMessage
    \/ \E botActive \in BOOLEAN : updateBotStatus(SampleGroup, botActive)
    \/ ClockSteps(MaxDays)

MessageSpec == Init /\ [][MessageNext]_vars

\* members changing their birthday between the materialization of a
\* reminder and its dispatch
ChangeNext ==
    \/ start
    \/ ClockSteps(MaxDays)
    \/ DispatchSteps({"cron"})
    \/ CreateSteps({"a"})
    \/ AddSteps(AddInputs)

ChangeSpec == Init /\ [][ChangeNext]_vars

\* the three jobs over the days of the retention, with the repository calls
\* that write reminders and a member registering a birthday in between
FrameNext ==
    \/ start
    \/ ClockSteps(MaxSweepDays)
    \/ DispatchSteps({"cron"})
    \/ CreateSteps({"a"})
    \/ markReminderSentCall
    \/ AddSteps({<<15, 3>>})

FrameSpec == Init /\ [][FrameNext]_vars

\* the start of the process, the signals and the restarts, while the days pass
BootNext ==
    \/ \E reachable \in BOOLEAN : databaseInit(reachable)
    \/ \E canConnect \in BOOLEAN : initializeWhatsApp(canConnect)
    \/ \E sig \in Signals : processSignal(sig)
    \/ restartProcess
    \/ ClockSteps(MaxSweepDays)

BootSpec == Init /\ [][BootNext]_vars

\* the whole program
Next ==
    \/ DispatchNext
    \/ CreateNext
    \/ RetentionNext
    \/ MarkNext
    \/ AddNext
    \/ SchedNext
    \/ FaultNext
    \/ ZoneNext
    \/ LifecycleNext
    \/ OrphanNext
    \/ DateNext
    \/ CommandNext
    \/ UpcomingNext
    \/ MessageNext
    \/ ChangeNext
    \/ FrameNext
    \/ BootNext

Spec == Init /\ [][Next]_vars

(***************************************************************************)
(* Properties.                                                             *)
(***************************************************************************)
ListIds(r) == {run[r].list[i].id : i \in 1..Len(run[r].list)}

\* the birthdays materialization for the date dt is about
Eligible(dt) ==
    {b \in birthdays : ActiveGroupOf(b) # {} /\ StrftimeMD(b.birth_date) = FormatMD(dt)}

RecordsOf(b, dt) ==
    {rec \in reminders : rec.birthday_id = b.id /\ rec.reminder_date = FormatYMD(dt)}

\* C1: at most one reminder row exists for any (birthday_id, reminder_date) pair.
C1_UniqueReminder ==
    \A x, y \in reminders :
        (x.birthday_id = y.birthday_id /\ x.reminder_date = y.reminder_date) => x.id = y.id

\* C2: the sink accepts at most one notification per reminder id, over all
\* dispatch runs: no run sends successfully for an id already delivered.
C2_DeliveredAtMostOnce ==
    [][\A r \in Runs : \A id \in sentIn'[r] \ sentIn[r] : id \notin delivered]_vars

\* C3: when a dispatch run returns after sends that all succeeded, every
\* reminder row of the run's date has sent = true and getPendingReminders for
\* that date returns nothing.
C3_AllSentAfterRun ==
    [][\A r \in Runs :
          (run[r].pc = "delay" /\ run'[r].pc = "done" /\ failedIn[r] = {})
          => /\ \A rec \in reminders' :
                   rec.reminder_date = FormatYMD(today) => rec.sent = TRUE
             /\ (PendingRows(FormatYMD(today)))' = {}]_vars

\* C4: after a run of the materialization job every birthday of tomorrow in an
\* active group has exactly one reminder row for tomorrow's date, unsent.
C4_MaterializedForTomorrow ==
    matStreak >= 1 =>
        \A b \in Eligible(AddDays(today, 1)) :
            /\ Cardinality(RecordsOf(b, AddDays(today, 1))) = 1
            /\ \A rec \in RecordsOf(b, AddDays(today, 1)) : rec.sent = FALSE

\* C5: after two runs of materialization in a row for the same date there is
\* exactly one reminder row per eligible birthday and the second run created none.
C5_MaterializeTwice ==
    matStreak >= 2 =>
        /\ matCreated = 0
        /\ \A b \in Eligible(AddDays(today, 1)) :
              Cardinality(RecordsOf(b, AddDays(today, 1))) = 1

\* C6: a record that is still unsent after a failed delivery attempt, and whose
\* birthday and active group still exist, is in the pending list of the next
\* scheduled dispatch run.
C6_RetriedByNextScheduledRun ==
    [][(run["cron"].pc = "query" /\ run'["cron"].pc \in {"send", "done"})
       => \A rec \in reminders :
             (/\ rec.sent = FALSE
              /\ rec.id \in owed
              /\ \E b \in birthdays : b.id = rec.birthday_id /\ ActiveGroupOf(b) # {})
             => \E i \in 1..Len(run'["cron"].list) : run'["cron"].list[i].id = rec.id]_vars

\* C7: in a dispatch run a failed send leaves the record as it is (the run does
\* not mark it sent), the run goes on to its pacing delay and to the next
\* record, every record up to the current position has had its own attempt, and
\* the run returns only after the attempt on the last record of its list.
C7_FailureIsolation ==
    [][\A r \in Runs :
          /\ run[r].pc \in {"send", "delay"}
             => /\ \A i \in 1..Len(run[r].list) :
                      (i < run[r].idx \/ (i = run[r].idx /\ run[r].pc = "delay"))
                      => run[r].list[i].id \in sentIn[r] \cup failedIn[r]
                /\ failedIn[r] \cap markedIn[r] = {}
          /\ (run[r].pc = "send" /\ failedIn'[r] # failedIn[r])
             => \A rec \in reminders :
                   rec.id = run[r].list[run[r].idx].id => rec \in reminders'
          /\ (run[r].pc \in {"send", "delay"} /\ run'[r].pc = "done")
             => (run[r].pc = "delay" /\ run[r].idx = Len(run[r].list))]_vars

\* C7, its case: a run at its last record, which it attempted after the send
\* for an earlier record of the list failed.
C7_Witness ==
    \E r \in Runs :
        /\ run[r].pc = "delay"
        /\ Len(run[r].list) = 3
        /\ run[r].idx = 3
        /\ run[r].list[1].id \in sentIn[r]
        /\ run[r].list[2].id \in failedIn[r]
        /\ run[r].list[3].id \in sentIn[r]

\* C8: when the sink fails only for the second of three pending records, then
\* after the run the first and the third have sent = true, the second sent = false.
C8_PartialFailure ==
    [][\A r \in Runs :
          (/\ run[r].pc = "delay" /\ run'[r].pc = "done"
           /\ Len(run[r].list) = 3
           /\ failedIn[r] = {run[r].list[2].id}
           /\ sentIn[r] = {run[r].list[1].id, run[r].list[3].id})
          => \A rec \in reminders' :
                /\ rec.id \in {run[r].list[1].id, run[r].list[3].id} => rec.sent = TRUE
                /\ rec.id = run[r].list[2].id => rec.sent = FALSE]_vars

\* C9: a manual and a scheduled dispatch run in flight together send no
\* record twice between them.
C9_NoDoubleSendAcrossRuns == sentIn["cron"] \cap sentIn["manual"] = {}

\* C10: the sweep removes the rows with sent = true and a reminder date more
\* than RetentionDays days before today, and leaves every other row as it was.
C10_SweepExact ==
    [][(clock = 0 /\ clock' = 1 /\ "cleanup" \in jobs)
       => /\ reminders' \subseteq reminders
          /\ \A rec \in reminders :
                rec \in reminders' <=>
                    ~(/\ rec.sent = TRUE
                      /\ DayNumber(ParseYMD(rec.reminder_date))
                            < DayNumber(today) - RetentionDays)]_vars

\* C10, its case: the sweep has just deleted a row, kept a sent row whose date
\* is exactly RetentionDays days back, and kept an unsent row older than that.
C10_Witness ==
    /\ clock = 1
    /\ deletedCount >= 1
    /\ \E rec \in reminders :
          /\ rec.sent = TRUE
          /\ DayNumber(ParseYMD(rec.reminder_date)) = DayNumber(today) - RetentionDays
    /\ \E rec \in reminders :
          /\ rec.sent = FALSE
          /\ DayNumber(ParseYMD(rec.reminder_date)) < DayNumber(today) - RetentionDays

\* C11: every reminder row has sent_at non-null if and only if sent is true.
C11_SentAtIffSent ==
    \A rec \in reminders : (rec.sent_at # <<>>) <=> (rec.sent = TRUE)

\* C11, its case: a row that mark-sent has written beside a row createReminder
\* has inserted and nothing has marked.
C11_Witness ==
    /\ \E rec \in reminders : rec.sent = TRUE /\ rec.sent_at # <<>>
    /\ \E rec \in reminders : rec.sent = FALSE /\ rec.sent_at = <<>>

\* C12: mark-sent changes nothing on a row that is already sent: the row, its
\* sent_at included, is after the step what it was before.
C12_MarkSentOnce ==
    [][\A x \in reminders :
          x.sent = TRUE => \A y \in reminders' : y.id = x.id => y = x]_vars

\* at most one birthday row per (phone_number, group_id)
OneBirthdayPerMember ==
    \A x, y \in birthdays :
        (x.phone_number = y.phone_number /\ x.group_id = y.group_id) => x.id = y.id

\* C13: under any interleaving of add-birthday requests there is at most one
\* birthday row per (phone_number, group_id), and a step leaves every row its
\* id, its owner and its group (an add for an existing pair updates the date).
C13_OneBirthdayPerPair ==
    [][/\ OneBirthdayPerMember'
       /\ \A b \in birthdays : \E b2 \in birthdays' :
             /\ b2.id = b.id
             /\ b2.phone_number = b.phone_number
             /\ b2.group_id = b.group_id]_vars

\* C14: when a stop() that found the scheduler Running returns, no trigger is
\* live: no task of the three jobs or of the test job is left that would start
\* a job body before the next start().
C14_StopCancelsAllTriggers ==
    [][(isRunning /\ stop) => \A n \in TaskNames : tasks'[n] = 0]_vars

\* C15: start() while Running and stop() while Stopped change neither the
\* running flag nor the registered jobs nor the live tasks, and no job of the
\* scheduler ever has two live tasks.
C15_NoOpCalls ==
    /\ [](\A n \in JobNames : tasks[n] <= 1)
    /\ [][((isRunning /\ start) \/ (~isRunning /\ stop)) => UNCHANGED schedVars]_vars

\* C15, its case: the scheduler Running with each of its jobs registered once
\* and a dispatch run in flight: the state a repeated start() returns in.
C15_Witness ==
    /\ isRunning
    /\ JobNames \subseteq jobs
    /\ \A n \in JobNames : tasks[n] = 1
    /\ run["cron"].pc = "delay"

\* C16: a step in which stop() takes the scheduler from Running to Stopped
\* leaves every dispatch run in flight where it is, with its list and position.
C16_StopLeavesRunInFlight ==
    [][(isRunning /\ ~isRunning')
       => \A r \in Runs : run[r].pc \in {"send", "delay"} => run'[r] = run[r]]_vars

C18_StoreFailureAbortsRun ==
    [][\A r \in Runs :
          (/\ run[r].pc = "send"
           /\ ~storeUp
           /\ run[r].idx < Len(run[r].list)
           /\ run[r].list[run[r].idx].id \in sentIn'[r])
          => run'[r].pc # "delay"]_vars

\* position of a group id or phone number in the order of text values
IdRank(s) ==
    CASE s = Jane -> 1
      [] s = John -> 2
      [] s = Ada -> 3
      [] s = SampleGroup -> 4

\* the phone number of the birthday a reminder id belongs to
OwnerOf(reminderId) ==
    (CHOOSE b \in birthdays : b.id = reminderId[1]).phone_number

\* C19: the list a dispatch run works through is in ascending order of group id
\* and, within a group, of owner id (phone number).
C19_OrderByGroupThenOwner ==
    [][\A r \in Runs :
          (run[r].pc = "query" /\ run'[r].pc = "send")
          => \A i, j \in 1..Len(run'[r].list) :
                i < j =>
                   LET x == run'[r].list[i]
                       y == run'[r].list[j]
                   IN  \/ IdRank(x.group_id) < IdRank(y.group_id)
                       \/ /\ x.group_id = y.group_id
                          /\ IdRank(OwnerOf(x.id)) <= IdRank(OwnerOf(y.id))]_vars

\* C20: the scheduled dispatch lists the pending rows of the date in the
\* scheduler timezone, and the date createTomorrowReminders computes is the
\* day after the date in the scheduler timezone, whatever the process's timezone.
C20_DatesInSchedulerZone ==
    /\ [](matDate # <<>> => matDate = FormatMD(AddDays(today, 1)))
    /\ [][(run["cron"].pc = "query" /\ run'["cron"].pc \in {"send", "done"})
          => (ListIds("cron"))' = {row.id : row \in PendingRows(FormatYMD(today))}]_vars

\* C21: every reminder row a step inserts is inserted exactly one calendar day
\* before its reminder date: the date of the row is the day after the local
\* date of the insertion.
C21_CreatedOneDayAhead ==
    [][\A rec \in reminders' \ reminders :
          rec.reminder_date = FormatYMD(AddDays(moment, 1))]_vars

\* C22: a step inserts a reminder row only for a birthday whose group is active,
\* and a dispatch run sends a notification only to a group that exists and is
\* active at the time of the send.
C22_ActiveGroupsOnly ==
    [][/\ \A rec \in reminders' \ reminders :
             \A b \in birthdays : b.id = rec.birthday_id => ActiveGroupOf(b) # {}
       /\ \A r \in Runs :
             (run[r].pc = "send" /\ sentIn'[r] # sentIn[r])
             => \E g \in groups :
                   g.group_id = run[r].list[run[r].idx].group_id /\ g.bot_active]_vars

\* C23: no dispatch run delivers a notification for a reminder row whose
\* birthday row has been deleted.
C23_NoDeliveryAfterDelete ==
    [][\A r \in Runs :
          (run[r].pc = "send" /\ sentIn'[r] # sentIn[r])
          => \A rec \in reminders :
                rec.id = run[r].list[run[r].idx].id
                => \E b \in birthdays : b.id = rec.birthday_id]_vars

\* a reminder row whose birthday row is gone
Orphan(rec) == ~\E b \in birthdays : b.id = rec.birthday_id

\* C24: a sweep leaves no unsent orphan row whose reminder date is more than
\* RetentionDays days back, so such rows do not pile up.
C24_OrphansSwept ==
    [][(clock = 0 /\ clock' = 1 /\ tasks["cleanup"] > 0)
       => \A rec \in reminders :
             (/\ rec.sent = FALSE
              /\ Orphan(rec)
              /\ DayNumber(ParseYMD(rec.reminder_date)) < DayNumber(today) - RetentionDays)
             => rec \notin reminders']_vars

\* the month and day a birthday row stores
MonthDay(b) == <<ParseYMD(b.birth_date)[2], ParseYMD(b.birth_date)[3]>>

\* whether the month and day md come before the month and day of the date dt
EarlierInYear(md, dt) == md[1] < dt[2] \/ (md[1] = dt[2] /\ md[2] < dt[3])

\* C25: the next birthday /mybirthday computes is the member's month and day in
\* the year of the local date when that is today or later in the year, and in
\* the next year when it is earlier than today (for every month and day that
\* year has).
C25_NextOccurrence ==
    [][\A p \in Phones : \A b \in birthdays :
          (handleMyBirthday(p) /\ b.phone_number = p)
          => LET md == MonthDay(b)
                 y == IF EarlierInYear(md, moment) THEN moment[1] + 1 ELSE moment[1]
             IN  md[2] <= DaysInMonth(y, md[1]) => reply'[3] = <<y, md[1], md[2]>>]_vars

\* C26: the days-until value /mybirthday shows is the number of calendar days
\* from the local date to the next birthday, whatever the time of day: 0 when
\* the next birthday is today, 1 when it is tomorrow.
C26_DaysUntilIgnoresTime ==
    [][\A p \in Phones :
          (handleMyBirthday(p) /\ reply'[1] = "mybirthday")
          => reply'[4] = DayNumber(reply'[3]) - DayNumber(moment)]_vars

\* C27: for a birthday stored as Feb 29, when the year of its next occurrence
\* has no Feb 29 the next birthday /mybirthday computes is March 1 of that year,
\* and on March 1 of such a year the SELECT of createTodaysReminders returns
\* the birthday as long as it has no reminder for the day.
C27_LeapDayFallback ==
    /\ [][\A p \in Phones : \A b \in birthdays :
             (handleMyBirthday(p) /\ b.phone_number = p /\ MonthDay(b) = <<2, 29>>)
             => LET y == IF EarlierInYear(<<2, 29>>, moment) THEN moment[1] + 1
                         ELSE moment[1]
                IN  ~IsLeapYear(y) => reply'[3] = <<y, 3, 1>>]_vars
    /\ [](\A b \in birthdays :
             (/\ MonthDay(b) = <<2, 29>>
              /\ ~IsLeapYear(moment[1])
              /\ moment[2] = 3 /\ moment[3] = 1
              /\ ActiveGroupOf(b) # {}
              /\ RecordsOf(b, moment) = {})
             => b.id \in BirthdaysWithoutReminder(FormatMD(moment), FormatYMD(moment)))

\* the birthdays of active groups whose month and day are those of the local
\* date and that have no reminder for the date
DueToday ==
    {b.id : b \in {x \in birthdays :
        /\ ActiveGroupOf(x) # {}
        /\ MonthDay(x) = <<moment[2], moment[3]>>
        /\ RecordsOf(x, moment) = {}}}

\* C28: createTodaysReminders selects a birthday by its month and day alone:
\* the rows it takes are those of active groups whose month and day are those
\* of the local date and that have no reminder for the date, whatever the year
\* the row stores.
C28_YearlyRecurrence ==
    /\ [](BirthdaysWithoutReminder(FormatMD(moment), FormatYMD(moment)) = DueToday)
    /\ [][\A c \in Callers :
             (createTodaysReminders(c) /\ ctr'[c].pc = "insert") => ctr'[c].todo = DueToday]_vars

\* C28, its case: in 2025 a reminder exists for the birthday init.sql stores
\* with the year 1990, or in 2028 one for the birthday registered in 2024.
C28_Witness ==
    \E rec \in reminders : \E b \in birthdays :
        /\ rec.birthday_id = b.id
        /\ ParseYMD(rec.reminder_date)[1] > 2024
        /\ ParseYMD(rec.reminder_date)[1] > ParseYMD(b.birth_date)[1]
        /\ MonthDay(b) = <<ParseYMD(rec.reminder_date)[2], ParseYMD(rec.reminder_date)[3]>>

\* whether the argument spells a day and a month of the calendar: two fields,
\* a month from 1 to 12 and a day that month has in some year
ValidDayMonth(input) ==
    /\ Len(input) = 2
    /\ input[2] \in 1..12
    /\ input[1] >= 1
    /\ input[1] <= (IF input[2] = 2 THEN 29 ELSE IF input[2] \in {4, 6, 9, 11} THEN 30 ELSE 31)

C30_ValidAddIsStored ==
    [][\A p \in Senders, input \in CommandInputs :
          (handleMessage(TRUE, p, input) /\ ValidDayMonth(input))
          => \E b \in birthdays' :
                /\ b.phone_number = p
                /\ b.group_id = SampleGroup
                /\ MonthDay(b) = <<input[2], input[1]>>]_vars

\* the days from the date now to the next date on which the month and day of
\* the birthday b occur (a 29 February occurs in leap years only)
DaysToNextOccurrence(b, now) ==
    LET md == MonthDay(b)
        years == {y \in now[1]..(now[1] + 8) :
                    /\ md[2] <= DaysInMonth(y, md[1])
                    /\ DayNumber(<<y, md[1], md[2]>>) >= DayNumber(now)}
        first == CHOOSE y \in years : \A z \in years : y <= z
    IN  DayNumber(<<first, md[1], md[2]>>) - DayNumber(now)

\* C31: the list /upcoming N replies with holds exactly the birthdays of the
\* group whose next occurrence is within the next N days.
C31_UpcomingWithinDays ==
    [][\A p \in Senders, days \in UpcomingArgs :
          (handleUpcoming(p, days) /\ reply'[1] = "upcoming")
          => {reply'[3][i] : i \in 1..Len(reply'[3])}
               = {b.id : b \in {x \in birthdays :
                                  /\ x.group_id = SampleGroup
                                  /\ DaysToNextOccurrence(x, moment) <= days}}]_vars

\* C32: a group message of a member that does not start with "/" sends no
\* reply and writes nothing to the store, in the client and in the bot's handler.
C32_OnlySlashMessages ==
    [][\A p \in Senders, body \in MessageBodies :
          (/\ ~startsWith(body, "/")
           /\ botHandleMessage(p, body) \/ handleMessageFrom(FALSE, p, body))
          => /\ reply'[1] \notin SentKinds
             /\ UNCHANGED <<storeVars, group_members>>]_vars

\* C37: a message of the bot's own account that does not start with "/" is
\* skipped before anything is stored or any handler runs; no text the bot
\* sends starts with "/", so the message event of a reply of the bot is
\* skipped and no reply answers a reply.
C37_OwnMessagesSkipped ==
    /\ [](reply[1] \in SentKinds => ~startsWith(ReplyText(reply[1]), "/"))
    /\ [][\A p \in Senders, body \in MessageBodies :
             (handleMessageFrom(TRUE, p, body) /\ ~startsWith(body, "/"))
             => /\ reply'[1] = "skipped"
                /\ UNCHANGED <<storeVars, group_members>>]_vars
    /\ [][ownMessage => (reply'[1] = "skipped" /\ UNCHANGED <<storeVars, group_members>>)]_vars

\* C37, its case: the hint the bot sent came back as a message of its own
\* account and was skipped.
C37_Witness ==
    /\ reply[1] = "skipped"
    /\ reply[2] = BotAccount
    /\ reply[3] = ReplyText("hint")

\* C33: a delivery attempt of a run is for a record the run has not attempted
\* before and is followed by the pacing delay, whether the send succeeded or
\* failed; the run comes to an attempt only from its query or from the delay
\* after the attempt for the record before; and no record is twice in the
\* list of a run.
C33_OnceAndPaced ==
    /\ [](\A r \in Runs : \A i, j \in 1..Len(run[r].list) :
             i < j => run[r].list[i].id # run[r].list[j].id)
    /\ [][\A r \in Runs : processBirthdayReminder(r) =>
             /\ run[r].list[run[r].idx].id \notin sentIn[r] \cup failedIn[r]
             /\ run'[r].pc = "delay"
             /\ run'[r].idx = run[r].idx]_vars
    /\ [][\A r \in Runs : (run'[r].pc = "send" /\ run'[r] # run[r]) =>
             \/ run[r].pc = "query" /\ run'[r].idx = 1
             \/ run[r].pc = "delay" /\ run'[r].idx = run[r].idx + 1
                /\ run'[r].list = run[r].list]_vars

\* C33, its case: a run is in the delay after its second attempt, and the
\* attempt before it failed.
C33_Witness ==
    \E r \in Runs :
       /\ run[r].pc = "delay"
       /\ run[r].idx = 2
       /\ run[r].list[1].id \in failedIn[r]
       /\ run[r].list[2].id \in sentIn[r] \cup failedIn[r]

\* C34: when a run has sent the notification of a reminder, the birthday the
\* reminder is for is stored with the month and day of the day of the send.
C34_SentOnStoredDay ==
    [][\A r \in Runs : (processBirthdayReminder(r) /\ sentIn'[r] # sentIn[r]) =>
          \A rec \in reminders : rec.id = run[r].list[run[r].idx].id =>
             \A b \in birthdays : b.id = rec.birthday_id =>
                MonthDay(b) = <<moment[2], moment[3]>>]_vars

\* C35: while the scheduler is not running its job set is empty, while it is
\* running the job set holds birthdayCheck, reminderCreation and cleanup, and
\* every job with a live task is in the job set.
C35_StatusInvariant ==
    /\ ~isRunning => jobs = {}
    /\ isRunning => JobNames \subseteq jobs
    /\ \A n \in TaskNames : tasks[n] > 0 => n \in jobs

\* a step of the body of the dispatch job, of the materialization job or of
\* the sweep job
JobBodyStep ==
    \/ \E r \in Runs : checkTodaysBirthdays(r) \/ processBirthdayReminder(r) \/ delay(r)
    \/ cronReminderCreation /\ tasks["reminderCreation"] > 0
    \/ cronCleanup /\ tasks["cleanup"] > 0

\* the step added one reminder row, unsent and with a new id
InsertedReminder ==
    \E rec \in reminders' :
       /\ rec \notin reminders
       /\ reminders' = reminders \cup {rec}
       /\ rec.sent = FALSE
       /\ rec.sent_at = <<>>
       /\ \A old \in reminders : old.id # rec.id

\* the step set sent and sent_at of one reminder row
MarkedReminder ==
    \E old \in reminders :
       reminders' = (reminders \ {old}) \cup
                       {[old EXCEPT !.sent = TRUE, !.sent_at = FormatYMD(CurrentTimestamp)]}

\* the step removed reminder rows, all of them sent and older than the retention
DeletedOldSent ==
    /\ reminders' \subseteq reminders
    /\ \A rec \in reminders \ reminders' :
          /\ rec.sent = TRUE
          /\ DayNumber(ParseYMD(rec.reminder_date)) < DayNumber(moment) - RetentionDays

\* C36: a step of a job body leaves the running flag, the job set, the tasks
\* and every table but reminders as they are, and every step that changes the
\* table reminders inserts one unsent row, marks one row sent or deletes sent
\* rows older than the retention.
C36_JobBodiesFrame ==
    /\ [][JobBodyStep => UNCHANGED <<isRunning, jobs, tasks, groups, birthdays, nextBid,
                                     group_members>>]_vars
    /\ [][reminders' # reminders =>
             InsertedReminder \/ MarkedReminder \/ DeletedOldSent]_vars

\* C36, its case: the scheduler runs with its three jobs, and the sweep has
\* just deleted a row that was created and marked sent and has kept a row
\* that is still pending.
C36_Witness ==
    /\ isRunning
    /\ JobNames \subseteq jobs
    /\ clock = 1
    /\ deletedCount > 0
    /\ \E rec \in reminders : rec.sent = FALSE

\* C38: the scheduler runs only once the database is open and the WhatsApp
\* client is initialized; and when the database was reachable, WhatsApp could
\* connect and no signal came, initialize() does not end in an exit: it ends
\* initialized with the scheduler running.
C38_StartupEndsRunning ==
    /\ isRunning => (proc.database = "open" /\ proc.client = "initialized")
    /\ (proc.pc = "exited" /\ proc.signal = "none" /\ proc.reachable /\ proc.canConnect)
          => FALSE
    /\ proc.pc = "initialized" => isRunning

\* C39: when the process has exited on SIGINT or SIGTERM, the scheduler is
\* stopped, the WhatsApp client is no longer up and the database connection
\* is closed.
C39_GracefulShutdownCompletes ==
    (proc.pc = "exited" /\ proc.signal \in Signals) =>
       /\ ~isRunning
       /\ proc.client \in {"none", "destroyed"}
       /\ proc.database = "closed"

====
